---- MODULE Spec2Model ----
(***************************************************************************)
(* Model of parser/data/load.go (package parser_data): the construction    *)
(* of the Sections table from the embedded documents and the filling of    *)
(* Keyword descriptions, both done once by init().                         *)
(*                                                                         *)
(* Go strings are sequences of one-character strings.  A parsed document   *)
(* is the list of the element children of <body>, in document order; a     *)
(* soup.Root is an index into that list, and index 0 is the Root that      *)
(* soup returns when no sibling exists (Pointer nil, NodeValue "").        *)
(* Each element carries the index of its parent element (0: <body>), so    *)
(* the siblings of an element are the elements with the same parent.       *)
(***************************************************************************)
EXTENDS Integers, Sequences, FiniteSets, TLC

VARIABLES
    pc,                    \* position of init()
    Sections,              \* var Sections []SectionDefinition
    pathHeap,              \* backing arrays of the Path slices, by address
    documentationSources,  \* the embedded sources/*.md, by file name
    Keywords,              \* the Keyword registry
    kwIndex,               \* i of the loop over Keywords
    heading,               \* the heading the last keyword iteration found (0: found = false)
    DEBUG,                 \* os.Getenv("DEBUG") != ""
    source,                \* argument of the parseDocumentationMarkdown call under study
    headingRootLevel,      \* its second argument
    parsed                 \* what that call returned

vars == <<pc, Sections, pathHeap, documentationSources, Keywords, kwIndex,
          heading, DEBUG, source, headingRootLevel, parsed>>

----------------------------------------------------------------------------
(* Bounds of the model *)

MaxDocLen == 4
MaxSectionBlocks == 2
MaxKeywordDocLen == 4
MaxKeywords == 2
MaxRunDocLen == 3

----------------------------------------------------------------------------
(* String literals *)

StrName == <<"n","a","m","e">>
StrDescription == <<"d","e","s","c","r","i","p","t","i","o","n">>
StrType == <<"t","y","p","e">>
StrDefault == <<"d","e","f","a","u","l","t">>
StrTable == <<"t","a","b","l","e">>
StrP == <<"p">>
StrBlockquote == <<"b","l","o","c","k","q","u","o","t","e">>
StrGeneral == <<"G","e","n","e","r","a","l">>
StrMaster == <<"M","a","s","t","e","r">>
StrDwindle == <<"D","w","i","n","d","l","e">>
StrLayout == <<"L","a","y","o","u","t">>
StrSub == <<"s","u","b">>

SeqsUpTo(S, n) == UNION {[1..k -> S] : k \in 0..n}

----------------------------------------------------------------------------
(* Library functions the code calls *)

Whitespace == {" ", "\t", "\n", "\r"}

RECURSIVE TrimLeft(_)
TrimLeft(s) ==
    IF s # <<>> /\ s[1] \in Whitespace THEN TrimLeft(Tail(s)) ELSE s

RECURSIVE TrimRight(_)
TrimRight(s) ==
    IF s # <<>> /\ s[Len(s)] \in Whitespace
    THEN TrimRight(SubSeq(s, 1, Len(s) - 1)) ELSE s

TrimSpace(s) == TrimRight(TrimLeft(s))

Digits == {"0","1","2","3","4","5","6","7","8","9"}

DigitValue(c) ==
    CASE c = "0" -> 0 [] c = "1" -> 1 [] c = "2" -> 2 [] c = "3" -> 3
      [] c = "4" -> 4 [] c = "5" -> 5 [] c = "6" -> 6 [] c = "7" -> 7
      [] c = "8" -> 8 [] c = "9" -> 9

RECURSIVE AtoiDigits(_)
AtoiDigits(s) ==
    IF s = <<>> THEN 0
    ELSE 10 * AtoiDigits(SubSeq(s, 1, Len(s) - 1)) + DigitValue(s[Len(s)])

\* strconv.Atoi on an unsigned decimal; err for anything else
Atoi(s) ==
    IF s # <<>> /\ \A k \in 1..Len(s) : s[k] \in Digits
    THEN [err |-> FALSE, val |-> AtoiDigits(s)]
    ELSE [err |-> TRUE, val |-> 0]

\* regexp `^h[1-6]$`
MatchHeadingTag(nodeValue) ==
    /\ Len(nodeValue) = 2
    /\ nodeValue[1] = "h"
    /\ nodeValue[2] \in {"1","2","3","4","5","6"}

\* soup.Root.NodeValue; the Root of a missing sibling has NodeValue ""
NodeValue(doc, e) == IF e = 0 THEN <<>> ELSE doc[e].NodeValue

\* soup.Root.FindPrevElementSibling / FindNextElementSibling on a Root with a node
FindPrevElementSibling(doc, e) ==
    LET before == {f \in 1..(e - 1) : doc[f].parent = doc[e].parent}
    IN  IF before = {} THEN 0 ELSE CHOOSE f \in before : \A g \in before : g <= f
FindNextElementSibling(doc, e) ==
    LET after == {f \in (e + 1)..Len(doc) : doc[f].parent = doc[e].parent}
    IN  IF after = {} THEN 0 ELSE CHOOSE f \in after : \A g \in after : f <= g

\* soup.Root.FullText / Text of an element
FullText(el) == el.text

\* soup.Root.HTML panics when html.Render is handed the nil Pointer of a missing
\* sibling, or a subtree it cannot serialize (el.fault)
HTMLPanics(doc, e) == e = 0 \/ doc[e].fault
HTML(doc, e) == <<doc[e].html>>

Panic == -1

----------------------------------------------------------------------------
(* Elements of a document *)

Element(nodeValue, text, hasId, id, th, tr, html, fault) ==
    [NodeValue |-> nodeValue, text |-> text, hasId |-> hasId, id |-> id,
     th |-> th, tr |-> tr, html |-> html, fault |-> fault, parent |-> 0]

Heading(level, text, html) ==
    Element(<<"h", level>>, text, FALSE, <<>>, <<>>, <<>>, html, FALSE)
HeadingWithId(level, text, id, html) ==
    Element(<<"h", level>>, text, TRUE, id, <<>>, <<>>, html, FALSE)
Paragraph(html, fault) ==
    Element(StrP, <<"x">>, FALSE, <<>>, <<>>, <<>>, html, fault)
Table(th, tr, html) ==
    Element(StrTable, <<>>, FALSE, <<>>, th, tr, html, FALSE)
Container(nodeValue, html) ==
    Element(nodeValue, <<>>, FALSE, <<>>, <<>>, <<>>, html, FALSE)

\* doc with the n elements after element f made the children of element f
Nested(doc, f, n) ==
    [e \in 1..Len(doc) |->
        IF f < e /\ e <= f + n THEN [doc[e] EXCEPT !.parent = f] ELSE doc[e]]

----------------------------------------------------------------------------
(* Heading Path Resolver *)

RECURSIVE backtrackToNearestHeader(_, _)
backtrackToNearestHeader(doc, element) ==
    IF NodeValue(doc, element) # StrTable /\ HTMLPanics(doc, element)
    THEN Panic                                  \* argument element.HTML() of debug
    ELSE IF MatchHeadingTag(NodeValue(doc, element))
    THEN element
    ELSE LET prev == FindPrevElementSibling(doc, element)
         IN  IF HTMLPanics(doc, prev)
             THEN Panic                         \* argument prev.HTML() of debug
             ELSE backtrackToNearestHeader(doc, prev)

PathPanic == [panic |-> TRUE, path |-> <<>>]

\* Faulty variant: a heading at the root level itself is not taken as the root
RECURSIVE tablePathStrictlyAboveRoot(_, _, _)
tablePathStrictlyAboveRoot(doc, table, rootLevel) ==
    LET header == backtrackToNearestHeader(doc, table)
    IN  IF header = Panic THEN PathPanic
        ELSE LET level == Atoi(Tail(NodeValue(doc, header)))
             IN  IF level.err THEN PathPanic
                 ELSE IF level.val < rootLevel
                 THEN [panic |-> FALSE, path |-> <<FullText(doc[header])>>]
                 ELSE LET up == tablePathStrictlyAboveRoot(
                                    doc, FindPrevElementSibling(doc, header), rootLevel)
                      IN  IF up.panic THEN PathPanic
                          ELSE [panic |-> FALSE,
                                path |-> Append(up.path, FullText(doc[header]))]

RECURSIVE tablePath(_, _, _)
tablePath(doc, table, rootLevel) ==
    LET header == backtrackToNearestHeader(doc, table)
    IN  IF header = Panic THEN PathPanic
        ELSE LET level == Atoi(Tail(NodeValue(doc, header)))
             IN  IF level.err THEN PathPanic
                 ELSE IF level.val <= rootLevel
                 THEN [panic |-> FALSE, path |-> <<FullText(doc[header])>>]
                 ELSE LET up == tablePath(doc, FindPrevElementSibling(doc, header), rootLevel)
                      IN  IF up.panic THEN PathPanic
                          ELSE [panic |-> FALSE,
                                path |-> Append(up.path, FullText(doc[header]))]

----------------------------------------------------------------------------
(* Table Section Extractor *)

tableHeaderCells(table) == table.th

\* Faulty variant: the cells compared without trimming
arraysEqualUntrimmed(a, b) ==
    /\ Len(a) = Len(b)
    /\ \A k \in 1..Len(a) : a[k] = b[k]

arraysEqual(a, b) ==
    /\ Len(a) = Len(b)
    /\ \A k \in 1..Len(a) : TrimSpace(a[k]) = TrimSpace(b[k])

SchemaHeader == <<StrName, StrDescription, StrType, StrDefault>>

IsSchemaTable(el) ==
    /\ el.NodeValue = StrTable
    /\ arraysEqual(tableHeaderCells(el), SchemaHeader)

RowVariable(cells) ==
    [Name |-> cells[1], Description |-> cells[2], Type |-> cells[3], Default |-> cells[4]]

\* the loop over table.FindAll("tr")[1:]
TableVariables(table) ==
    LET rows == SelectSeq(Tail(table.tr), LAMBDA cells : Len(cells) = 4)
    IN  [k \in 1..Len(rows) |-> RowVariable(rows[k])]

\* A SectionDefinition: Path is the address of the slice's backing array
SectionDefinition(addr, variables) ==
    [Path |-> addr, Variables |-> variables, Subsections |-> <<>>]

ParsePanic == [panic |-> TRUE, sections |-> <<>>, heap |-> <<>>]

\* Faulty variant: a table whose path cannot be resolved is skipped
RECURSIVE ExtractSectionsSkippingOrphans(_, _, _, _, _)
ExtractSectionsSkippingOrphans(doc, rootLevel, t, sections, heap) ==
    IF t > Len(doc) THEN [panic |-> FALSE, sections |-> sections, heap |-> heap]
    ELSE IF ~IsSchemaTable(doc[t]) \/ tablePath(doc, t, rootLevel).panic
    THEN ExtractSectionsSkippingOrphans(doc, rootLevel, t + 1, sections, heap)
    ELSE ExtractSectionsSkippingOrphans(doc, rootLevel, t + 1,
             Append(sections, SectionDefinition(Len(heap) + 1, TableVariables(doc[t]))),
             Append(heap, tablePath(doc, t, rootLevel).path))

\* the loop over document.FindAll("table"), from element t on
RECURSIVE ExtractSections(_, _, _, _, _)
ExtractSections(doc, rootLevel, t, sections, heap) ==
    IF t > Len(doc) THEN [panic |-> FALSE, sections |-> sections, heap |-> heap]
    ELSE IF ~IsSchemaTable(doc[t])
    THEN ExtractSections(doc, rootLevel, t + 1, sections, heap)
    ELSE LET p == tablePath(doc, t, rootLevel)
         IN  IF p.panic \/ doc[t].tr = <<>>     \* tablePath panics, or [1:] of no rows
             THEN ParsePanic
             ELSE ExtractSections(doc, rootLevel, t + 1,
                      Append(sections,
                             SectionDefinition(Len(heap) + 1, TableVariables(doc[t]))),
                      Append(heap, p.path))

PathOf(s, heap) == heap[s.Path]

\* SectionDefinition.Name: the last element of Path
Name(s, heap) == PathOf(s, heap)[Len(PathOf(s, heap))]

AttachSubsections(s, sections, heap) ==
    [s EXCEPT !.Subsections =
        SelectSeq(sections,
                  LAMBDA section : /\ Len(PathOf(section, heap)) # 1
                                   /\ PathOf(section, heap)[1] = Name(s, heap))]

\* the loop "for i, section := range sections", from index i on
RECURSIVE AttachAll(_, _, _)
AttachAll(sections, heap, i) ==
    IF i > Len(sections) THEN sections
    ELSE IF Len(PathOf(sections[i], heap)) = 1
    THEN AttachAll([sections EXCEPT ![i] = AttachSubsections(sections[i], sections, heap)],
                   heap, i + 1)
    ELSE AttachAll(sections, heap, i + 1)

\* The result's Path addresses index the result's own heap
parseDocumentationMarkdown(doc, rootLevel) ==
    LET flat == ExtractSections(doc, rootLevel, 1, <<>>, <<>>)
    IN  IF flat.panic THEN ParsePanic
        ELSE [panic |-> FALSE,
              sections |-> AttachAll(flat.sections, flat.heap, 1),
              heap |-> flat.heap]

\* Path[0] = rootSectionName writes the backing array of every returned section;
\* the copies held in Subsections share those arrays
RECURSIVE RenameRoots(_, _, _, _)
RenameRoots(sections, heap, rootSectionName, i) ==
    IF i > Len(sections) THEN heap
    ELSE RenameRoots(sections,
                     [heap EXCEPT ![sections[i].Path][1] = rootSectionName],
                     rootSectionName, i + 1)

\* Faulty variant: the rename gives every returned section a new Path array
parseDocumentationMarkdownRenamedByCopy(doc, rootLevel, rootSectionName) ==
    LET r == parseDocumentationMarkdown(doc, rootLevel)
    IN  IF r.panic THEN ParsePanic
        ELSE [panic |-> FALSE,
              sections |-> [k \in 1..Len(r.sections) |->
                              [r.sections[k] EXCEPT !.Path = Len(r.heap) + k]],
              heap |-> r.heap \o
                       [k \in 1..Len(r.sections) |->
                           [r.heap[r.sections[k].Path] EXCEPT ![1] = rootSectionName]]]

parseDocumentationMarkdownWithRootSectionName(doc, rootLevel, rootSectionName) ==
    LET r == parseDocumentationMarkdown(doc, rootLevel)
    IN  IF r.panic THEN ParsePanic
        ELSE [r EXCEPT !.heap = RenameRoots(r.sections, r.heap, rootSectionName, 1)]

\* append(Sections, ...): the appended sections' arrays get fresh addresses
Relocate(sections, offset) ==
    [k \in 1..Len(sections) |->
        [sections[k] EXCEPT
            !.Path = @ + offset,
            !.Subsections = [j \in 1..Len(@) |-> [@[j] EXCEPT !.Path = @ + offset]]]]

undocumentedGeneralSectionVariables ==
    <<[Name |-> <<"a","u","t","o","g","e","n","e","r","a","t","e","d">>,
       Description |->
         <<"W","h","e","t","h","e","r"," ","t","h","i","s"," ","c","o","n","f","i","g","u","r","a","t","i","o","n"," ">>
         \o <<"w","a","s"," ","a","u","t","o","g","e","n","e","r","a","t","e","d">>,
       Type |-> <<"b","o","o","l">>, Default |-> <<"1">>]>>

addVariableDefsOnSection(sections, heap, sectionName, variables) ==
    [k \in 1..Len(sections) |->
        IF Name(sections[k], heap) # sectionName THEN sections[k]
        ELSE [sections[k] EXCEPT !.Variables = @ \o variables]]

----------------------------------------------------------------------------
(* Keyword Description Extractor *)

UpperLetters == <<"A","B","C","D","E","F","G","H","I","J","K","L","M",
                  "N","O","P","Q","R","S","T","U","V","W","X","Y","Z">>
LowerLetters == <<"a","b","c","d","e","f","g","h","i","j","k","l","m",
                  "n","o","p","q","r","s","t","u","v","w","x","y","z">>
LetterCount == Len(UpperLetters)

ToLowerChar(c) ==
    IF \E k \in 1..LetterCount : UpperLetters[k] = c
    THEN LowerLetters[CHOOSE k \in 1..LetterCount : UpperLetters[k] = c]
    ELSE c

ToLower(s) == [k \in 1..Len(s) |-> ToLowerChar(s[k])]

Alnum == {UpperLetters[k] : k \in 1..LetterCount}
         \cup {LowerLetters[k] : k \in 1..LetterCount} \cup Digits

\* every run of characters outside [a-zA-Z0-9] becomes one "-"
RECURSIVE HyphenateRuns(_, _)
HyphenateRuns(s, inRun) ==
    IF s = <<>> THEN <<>>
    ELSE IF s[1] \in Alnum THEN <<s[1]>> \o HyphenateRuns(Tail(s), FALSE)
    ELSE IF inRun THEN HyphenateRuns(Tail(s), TRUE)
    ELSE <<"-">> \o HyphenateRuns(Tail(s), TRUE)

RECURSIVE TrimHyphens(_)
TrimHyphens(s) ==
    IF s # <<>> /\ s[1] = "-" THEN TrimHyphens(Tail(s))
    ELSE IF s # <<>> /\ s[Len(s)] = "-" THEN TrimHyphens(SubSeq(s, 1, Len(s) - 1))
    ELSE s

\* slugify.Marshal(s, true)
SlugifyMarshal(s) == ToLower(TrimHyphens(HyphenateRuns(s, FALSE)))

HasPrefix(s, p) == Len(s) >= Len(p) /\ SubSeq(s, 1, Len(p)) = p
Drop(s, n) == SubSeq(s, n + 1, Len(s))

RECURSIVE RunLength(_, _)
RunLength(s, class) ==
    IF s # <<>> /\ s[1] \in class THEN 1 + RunLength(Tail(s), class) ELSE 0

\* the literal parts of the pattern `^weight-%d+-title-`: "weight-%", then one
\* or more of the letter d, then "-title-"
PatternHead == <<"w","e","i","g","h","t","-","%">>
PatternRepeated == {"d"}
PatternTail == <<"-","t","i","t","l","e","-">>

\* regexp.MustCompile(`^weight-%d+-title-`).ReplaceAllString(anchor, "")
StripWeightPrefix(anchor) ==
    LET afterHead == Drop(anchor, Len(PatternHead))
        n == RunLength(afterHead, PatternRepeated)
        afterRun == Drop(afterHead, n)
    IN  IF HasPrefix(anchor, PatternHead) /\ n >= 1 /\ HasPrefix(afterRun, PatternTail)
        THEN Drop(afterRun, Len(PatternTail))
        ELSE anchor

Anchor(el) == StripWeightPrefix(SlugifyMarshal(TrimSpace(FullText(el))))

Indices(doc) == [e \in 1..Len(doc) |-> e]

\* document.FindAll(tag): the elements with that tag, in document order
FindAll(doc, tag) == SelectSeq(Indices(doc), LAMBDA e : doc[e].NodeValue = tag)

\* Faulty variant: the headings enumerated in document order
HeadingsInDocumentOrder(doc) ==
    SelectSeq(Indices(doc), LAMBDA e : MatchHeadingTag(doc[e].NodeValue))

\* the headings of the loop over "h1" ... "h6": all h1, then all h2, ...
Headings(doc) ==
    FindAll(doc, <<"h","1">>) \o FindAll(doc, <<"h","2">>) \o FindAll(doc, <<"h","3">>)
    \o FindAll(doc, <<"h","4">>) \o FindAll(doc, <<"h","5">>) \o FindAll(doc, <<"h","6">>)

HeadingMatches(el, slug) ==
    \/ el.hasId /\ el.id = slug
    \/ Anchor(el) = slug

\* the loop over headings: the first one that matches, 0 when found stays false
FindHeading(doc, slug) ==
    LET hs == Headings(doc)
        hits == SelectSeq(hs, LAMBDA e : HeadingMatches(doc[e], slug))
    IN  IF hits = <<>> THEN 0 ELSE hits[1]

isHeading(doc, e) == MatchHeadingTag(NodeValue(doc, e))

\* called on headings only, where Atoi cannot fail
headingLevel(doc, e) == Atoi(Tail(NodeValue(doc, e))).val

\* [panic |-> a panic leaves the call, out |-> the returned markup]
RECURSIVE htmlBetweenHeadingAndNextHeading(_, _, _, _)
htmlBetweenHeadingAndNextHeading(doc, start, element, debugEnv) ==
    LET next == FindNextElementSibling(doc, element)
    IN  IF isHeading(doc, next) /\ headingLevel(doc, next) = headingLevel(doc, start)
        THEN [panic |-> FALSE, out |-> <<>>]
        ELSE IF HTMLPanics(doc, next)
        THEN \* next.HTML() panics; the deferred function recovers, and with DEBUG
             \* set it calls next.HTML() again, which panics out of the call
             [panic |-> debugEnv, out |-> <<>>]
        ELSE LET rest == htmlBetweenHeadingAndNextHeading(doc, start, next, debugEnv)
             IN  IF rest.panic
                 THEN \* the callee's panic is recovered here: the unnamed result is ""
                      [panic |-> FALSE, out |-> <<>>]
                 ELSE [panic |-> FALSE, out |-> HTML(doc, next) \o rest.out]

\* html2md.ConvertString: each piece of markup to its markdown rendering
ConvertString(markup) == [k \in 1..Len(markup) |-> <<"md", markup[k]>>]


----------------------------------------------------------------------------
(* Inputs: the elements documents are made of *)

StrOther == <<"O","t","h","e","r">>
StrMyThing == <<"M","y"," ","T","h","i","n","g">>
StrWeightTitle == <<"W","e","i","g","h","t"," ","3"," ","T","i","t","l","e"," ",
                    "M","y"," ","T","h","i","n","g">>
SlugMyThing == <<"m","y","-","t","h","i","n","g">>
SlugAbsent == <<"a","b","s","e","n","t">>
SlugWeightTitle == <<"w","e","i","g","h","t","-","3","-","t","i","t","l","e","-",
                     "m","y","-","t","h","i","n","g">>

HeaderRow == <<>>
GoodRow == <<<<"f","o","o">>, <<"d","o","e","s"," ","x">>, <<"b","o","o","l">>, <<"0">>>>
ShortRow == <<<<"b","a","r">>, <<"b","o","o","l">>>>
OtherRow == <<<<"b","a","z">>, <<"y">>, <<"i","n","t">>, <<"1">>>>
Rows == <<HeaderRow, GoodRow, ShortRow>>
OtherRows == <<HeaderRow, ShortRow, OtherRow>>

SchemaTable == Table(SchemaHeader, Rows, "<table:schema>")
PaddedTable ==
    Table(<<<<" ">> \o StrName, StrDescription \o <<" ", "\n">>,
            <<"\t">> \o StrType \o <<" ">>, StrDefault>>, OtherRows, "<table:padded>")
CaseTable ==
    Table(<<<<"N","a","m","e">>, StrDescription, StrType, StrDefault>>, Rows, "<table:case>")
ReorderedTable ==
    Table(<<StrName, StrType, StrDescription, StrDefault>>, Rows, "<table:reordered>")
ShortTable == Table(<<StrName, StrDescription, StrType>>, Rows, "<table:short>")

HLayout == Heading("2", StrLayout, "<h2>Layout</h2>")
HGeneral == Heading("3", StrGeneral, "<h3>General</h3>")
HSub == Heading("4", StrSub, "<h4>sub</h4>")
PText == Paragraph("<p>a</p>", FALSE)
POther == Paragraph("<p>b</p>", FALSE)
PFault == Paragraph("<p>c</p>", TRUE)

Blockquote == Container(StrBlockquote, "<blockquote>")

ParseElements ==
    {HLayout, HGeneral, HSub, Blockquote,
     SchemaTable, PaddedTable, CaseTable, ReorderedTable, ShortTable}
\* Nested(doc, f, n) nests the n elements after the blockquote f; f = 0: flat
CanNest(doc, f, n) ==
    \/ f = 0 /\ n = 0
    \/ /\ f >= 1 /\ n >= 1
       /\ f + n <= Len(doc)
       /\ doc[f] = Blockquote

\* documents made of blocks: a heading, a schema table, or a heading and its table
SectionBlocks ==
    {<<HLayout>>, <<HGeneral>>, <<HSub>>, <<SchemaTable>>,
     <<HLayout, SchemaTable>>, <<HGeneral, SchemaTable>>, <<HSub, SchemaTable>>}
RECURSIVE Flatten(_)
Flatten(blocks) == IF blocks = <<>> THEN <<>> ELSE Head(blocks) \o Flatten(Tail(blocks))
SectionDocuments(maxBlocks) == {Flatten(bs) : bs \in SeqsUpTo(SectionBlocks, maxBlocks)}

\* the documents of the specification's examples A and B, and a table with no heading
ExampleA == <<Heading("2", StrGeneral, "<h2>General</h2>"), SchemaTable>>
ExampleB == <<HLayout, SchemaTable, Heading("3", StrSub, "<h3>sub</h3>"), SchemaTable>>
OrphanTable == <<PText, SchemaTable>>
ExampleDocuments == {ExampleA, ExampleB, OrphanTable}

H1Other == Heading("1", StrOther, "<h1>Other</h1>")
H2MyThing == Heading("2", StrMyThing, "<h2>My Thing</h2>")
H2Other == Heading("2", StrOther, "<h2>Other</h2>")
H3ById == HeadingWithId("3", StrOther, SlugMyThing, "<h3 id=my-thing>Other</h3>")
H2Weight == Heading("2", StrWeightTitle, "<h2>Weight 3 Title My Thing</h2>")

KeywordElements == {H1Other, H2MyThing, H3ById, H2Weight, PText, POther, PFault}
KeywordDocuments(maxLen) == SeqsUpTo(KeywordElements, maxLen)

RunKeywordElements == {H2MyThing, H2Other, PText}
RunKeywordDocuments(maxLen) == SeqsUpTo(RunKeywordElements, maxLen)

Preset == <<"preset">>
Keyword(file, slug, description) ==
    [Name |-> "kw", documentationFile |-> file,
     documentationHeadingSlug |-> slug, Description |-> description]

RootLevelVariables == 3
RootLevelLayouts == 2

----------------------------------------------------------------------------
(* init() *)

NotParsed == [panic |-> FALSE, sections |-> <<>>, heap |-> <<>>]

InitCommon ==
    /\ Sections = <<>>
    /\ pathHeap = <<>>
    /\ kwIndex = 1
    /\ heading = 0
    /\ source = <<>>
    /\ headingRootLevel = 0
    /\ parsed = NotParsed

\* Sections = parseDocumentationMarkdown(documentationSource, 3)
ParseVariables(documents) ==
    /\ pc = "parseVariables"
    /\ \E doc \in documents :
         LET r == parseDocumentationMarkdown(doc, RootLevelVariables)
         IN  IF r.panic
             THEN pc' = "panicked" /\ UNCHANGED <<Sections, pathHeap>>
             ELSE /\ Sections' = r.sections
                  /\ pathHeap' = r.heap
                  /\ pc' = "parseMaster"
    /\ UNCHANGED <<documentationSources, Keywords, kwIndex, heading, DEBUG,
                   source, headingRootLevel, parsed>>

AppendRenamed(documents, rootSectionName, nextPc) ==
    /\ \E doc \in documents :
         LET r == parseDocumentationMarkdownWithRootSectionName(
                      doc, RootLevelLayouts, rootSectionName)
         IN  IF r.panic
             THEN pc' = "panicked" /\ UNCHANGED <<Sections, pathHeap>>
             ELSE /\ Sections' = Sections \o Relocate(r.sections, Len(pathHeap))
                  /\ pathHeap' = pathHeap \o r.heap
                  /\ pc' = nextPc
    /\ UNCHANGED <<documentationSources, Keywords, kwIndex, heading, DEBUG,
                   source, headingRootLevel, parsed>>

ParseMaster(documents) ==
    /\ pc = "parseMaster"
    /\ AppendRenamed(documents, StrMaster, "parseDwindle")

ParseDwindle(documents) ==
    /\ pc = "parseDwindle"
    /\ AppendRenamed(documents, StrDwindle, "addVariableDefs")

AddVariableDefs ==
    /\ pc = "addVariableDefs"
    /\ Sections' = addVariableDefsOnSection(Sections, pathHeap, StrGeneral,
                                            undocumentedGeneralSectionVariables)
    /\ pc' = "keywords"
    /\ UNCHANGED <<pathHeap, documentationSources, Keywords, kwIndex, heading, DEBUG,
                   source, headingRootLevel, parsed>>

\* one iteration of the loop over Keywords
KeywordIteration ==
    /\ pc = "keywords"
    /\ kwIndex <= Len(Keywords)
    /\ LET kw == Keywords[kwIndex]
       IN  IF kw.Description # <<>> \/ kw.documentationFile \notin DOMAIN documentationSources
           THEN /\ heading' = 0
                /\ kwIndex' = kwIndex + 1
                /\ UNCHANGED <<pc, Keywords>>
           ELSE LET document == documentationSources[kw.documentationFile]
                    h == FindHeading(document, kw.documentationHeadingSlug)
                    capture == htmlBetweenHeadingAndNextHeading(document, h, h, DEBUG)
                IN  /\ heading' = h
                    /\ IF h = 0
                       THEN kwIndex' = kwIndex + 1 /\ UNCHANGED <<pc, Keywords>>
                       ELSE IF capture.panic
                       THEN pc' = "panicked" /\ UNCHANGED <<kwIndex, Keywords>>
                       ELSE /\ Keywords' = [Keywords EXCEPT
                                   ![kwIndex].Description = ConvertString(capture.out)]
                            /\ kwIndex' = kwIndex + 1
                            /\ UNCHANGED pc
    /\ UNCHANGED <<Sections, pathHeap, documentationSources, DEBUG,
                   source, headingRootLevel, parsed>>

Finish ==
    /\ pc = "keywords"
    /\ kwIndex > Len(Keywords)
    /\ pc' = "done"
    /\ UNCHANGED <<Sections, pathHeap, documentationSources, Keywords, kwIndex,
                   heading, DEBUG, source, headingRootLevel, parsed>>

\* The whole of init(), on the example documents and a small keyword registry
Init ==
    /\ InitCommon
    /\ pc = "parseVariables"
    /\ DEBUG \in BOOLEAN
    /\ \E doc \in RunKeywordDocuments(MaxRunDocLen) : documentationSources = [f \in {"Keywords"} |-> doc]
    /\ Keywords \in SeqsUpTo(
           {Keyword(f, s, d) : f \in {"Keywords", "Missing"},
                               s \in {SlugMyThing, SlugAbsent},
                               d \in {<<>>, Preset}},
           MaxKeywords)

Next ==
    \/ ParseVariables(ExampleDocuments)
    \/ ParseMaster(ExampleDocuments)
    \/ ParseDwindle(ExampleDocuments)
    \/ AddVariableDefs
    \/ KeywordIteration
    \/ Finish

Spec == Init /\ [][Next]_vars

\* The construction of Sections, on every document of bounded length
InitSections ==
    /\ InitCommon
    /\ pc = "parseVariables"
    /\ DEBUG = FALSE
    /\ documentationSources = <<>>
    /\ Keywords = <<>>

NextSections ==
    \/ ParseVariables(SectionDocuments(MaxSectionBlocks))
    \/ ParseMaster(SectionDocuments(MaxSectionBlocks))
    \/ ParseDwindle(SectionDocuments(MaxSectionBlocks))
    \/ AddVariableDefs
    \/ Finish

SpecSections == InitSections /\ [][NextSections]_vars

\* The keyword loop on one keyword, from the state init() is in when the
\* embedded documents hold no schema table
InitKeyword ==
    /\ InitCommon
    /\ pc = "keywords"
    /\ DEBUG \in BOOLEAN
    /\ \E doc \in KeywordDocuments(MaxKeywordDocLen) : documentationSources = [f \in {"Keywords"} |-> doc]
    /\ \E s \in {SlugMyThing, SlugAbsent} : Keywords = <<Keyword("Keywords", s, <<>>)>>

NextKeyword == KeywordIteration \/ Finish

SpecKeyword == InitKeyword /\ [][NextKeyword]_vars

\* parseDocumentationMarkdown as a function of its arguments
InitParse ==
    /\ Sections = <<>>
    /\ pathHeap = <<>>
    /\ kwIndex = 1
    /\ heading = 0
    /\ pc = "call"
    /\ DEBUG = FALSE
    /\ documentationSources = <<>>
    /\ Keywords = <<>>
    /\ \E doc \in SeqsUpTo(ParseElements, MaxDocLen) :
          \E f, n \in 0..MaxDocLen :
             CanNest(doc, f, n) /\ source = Nested(doc, f, n)
    /\ headingRootLevel \in {RootLevelLayouts, RootLevelVariables}
    /\ parsed = NotParsed

CallParse ==
    /\ pc = "call"
    /\ parsed' = parseDocumentationMarkdown(source, headingRootLevel)
    /\ pc' = "returned"
    /\ UNCHANGED <<Sections, pathHeap, documentationSources, Keywords, kwIndex,
                   heading, DEBUG, source, headingRootLevel>>

NextParse == CallParse

SpecParse == InitParse /\ [][NextParse]_vars


----------------------------------------------------------------------------
(* Claims about the keyword loop, under SpecKeyword: one keyword, whose    *)
(* document loads                                                          *)

KwDoc == documentationSources["Keywords"]
KwSlug == Keywords[1].documentationHeadingSlug
\* the keyword's iteration has run
Iterated == kwIndex > 1 \/ pc = "panicked"

IsHeadingAt(doc, e) == doc[e].NodeValue[1] = "h" /\ Len(doc[e].NodeValue) = 2
LevelAt(doc, e) == DigitValue(doc[e].NodeValue[2])
NoFault(doc) == \A e \in 1..Len(doc) : ~doc[e].fault

\* the elements from..to, in document order
Range(from, to) == [k \in 1..(to - from + 1) |-> from + k - 1]

\* the markup of the listed elements, concatenated
Markup(doc, elems) == [k \in 1..Len(elems) |-> doc[elems[k]].html]

\* the first element after h that is a heading of level <= h's, Len(doc)+1 if none
RangeEnd(doc, h) ==
    LET ends == {e \in (h + 1)..Len(doc) :
                    IsHeadingAt(doc, e) /\ LevelAt(doc, e) <= LevelAt(doc, h)}
    IN  IF ends = {} THEN Len(doc) + 1
        ELSE CHOOSE e \in ends : \A f \in ends : e <= f

\* C1: the capture is the markup of the siblings after the matched heading up
\* to, and excluding, the first following heading whose level is <= the
\* matched heading's (stated with DEBUG unset and no serialization fault)
C1_CaptureEndsAtHeadingOfLevelAtMost ==
    (Iterated /\ heading # 0 /\ ~DEBUG /\ NoFault(KwDoc))
    => /\ pc # "panicked"
       /\ Keywords[1].Description =
            ConvertString(Markup(KwDoc, Range(heading + 1, RangeEnd(KwDoc, heading) - 1)))

\* C2 as claimed: the chosen heading is the first matching one in document order
C2_FirstMatchInDocumentOrder ==
    (Iterated /\ heading # 0)
    => \A e \in 1..(heading - 1) :
          ~(IsHeadingAt(KwDoc, e) /\ HeadingMatches(KwDoc[e], KwSlug))

\* C2 as amended: the chosen heading matches, and is the first matching one
\* in the order "all h1 in document order, then all h2, ..., then all h6";
\* no heading is chosen exactly when none matches
C2_FirstMatchByLevelThenPosition ==
    Iterated
    => /\ heading = 0 <=>
            ~\E e \in 1..Len(KwDoc) :
                IsHeadingAt(KwDoc, e) /\ HeadingMatches(KwDoc[e], KwSlug)
       /\ heading # 0 =>
            /\ IsHeadingAt(KwDoc, heading)
            /\ HeadingMatches(KwDoc[heading], KwSlug)
            /\ \A e \in 1..Len(KwDoc) :
                  (IsHeadingAt(KwDoc, e) /\ HeadingMatches(KwDoc[e], KwSlug))
                  => \/ LevelAt(KwDoc, heading) < LevelAt(KwDoc, e)
                     \/ LevelAt(KwDoc, heading) = LevelAt(KwDoc, e) /\ heading <= e

\* a matching h3 precedes the chosen, matching h2
C2_Witness ==
    /\ Iterated
    /\ heading # 0
    /\ \E e \in 1..(heading - 1) :
          /\ IsHeadingAt(KwDoc, e)
          /\ HeadingMatches(KwDoc[e], KwSlug)
          /\ LevelAt(KwDoc, e) > LevelAt(KwDoc, heading)

\* C7: a sibling whose serialization fails costs only its own markup: the
\* capture is the markup of every other sibling of the range (stated with
\* DEBUG unset, and no following heading of a smaller level number)
C7_FaultDropsOnlyThatSibling ==
    (/\ Iterated /\ heading # 0 /\ ~DEBUG
     /\ \A e \in (heading + 1)..Len(KwDoc) :
           IsHeadingAt(KwDoc, e) => LevelAt(KwDoc, e) >= LevelAt(KwDoc, heading))
    => /\ pc # "panicked"
       /\ Keywords[1].Description =
            ConvertString(Markup(KwDoc,
                SelectSeq(Range(heading + 1, RangeEnd(KwDoc, heading) - 1),
                          LAMBDA e : ~KwDoc[e].fault)))

\* C9: a heading whose slugified text is "weight-3-title-my-thing" matches the
\* keyword whose documentationHeadingSlug is "my-thing"
C9_WeightPrefixIsStripped ==
    (/\ Iterated /\ KwSlug = SlugMyThing
     /\ \E e \in 1..Len(KwDoc) :
           /\ IsHeadingAt(KwDoc, e)
           /\ SlugifyMarshal(TrimSpace(KwDoc[e].text)) = SlugWeightTitle)
    => heading # 0

\* C10: with no heading after the matched one that could end the range, the
\* iteration does not panic and the capture is the markup of every following
\* sibling (stated for documents with no serialization fault)
C10_CaptureRunsToTheLastSibling ==
    (/\ Iterated /\ heading # 0 /\ NoFault(KwDoc)
     /\ RangeEnd(KwDoc, heading) = Len(KwDoc) + 1)
    => /\ pc # "panicked"
       /\ Keywords[1].Description =
            ConvertString(Markup(KwDoc, Range(heading + 1, Len(KwDoc))))

\* what does hold of C10: the same with DEBUG unset
CaptureRunsToTheLastSiblingWithoutDebug == ~DEBUG => C10_CaptureRunsToTheLastSibling


----------------------------------------------------------------------------
(* Claims about parseDocumentationMarkdown, under SpecParse                *)

\* the tables of the inputs whose trimmed header cells are name, description,
\* type, default
Qualifying(el) == [el EXCEPT !.parent = 0] \in {SchemaTable, PaddedTable}
QualifyingTables(doc) == SelectSeq(Indices(doc), LAMBDA t : Qualifying(doc[t]))

VariableFoo == [Name |-> <<"f","o","o">>, Description |-> <<"d","o","e","s"," ","x">>,
                Type |-> <<"b","o","o","l">>, Default |-> <<"0">>]
VariableBaz == [Name |-> <<"b","a","z">>, Description |-> <<"y">>,
                Type |-> <<"i","n","t">>, Default |-> <<"1">>]
ExpectedVariables(el) ==
    IF [el EXCEPT !.parent = 0] = SchemaTable THEN <<VariableFoo>> ELSE <<VariableBaz>>

PrecedingSiblings(doc, t) == {e \in 1..(t - 1) : doc[e].parent = doc[t].parent}
PrecedingHeadings(doc, t) == {e \in PrecedingSiblings(doc, t) : IsHeadingAt(doc, e)}
PrecedingRoots(doc, t, rootLevel) ==
    {e \in PrecedingHeadings(doc, t) : LevelAt(doc, e) <= rootLevel}
Last(S) == CHOOSE e \in S : \A f \in S : f <= e

\* every qualifying table has a heading of level <= rootLevel before it
WellFormed(doc, rootLevel) ==
    \A t \in 1..Len(doc) : Qualifying(doc[t]) => PrecedingRoots(doc, t, rootLevel) # {}

\* C4: the call returns one Section per qualifying table and none for any
\* other table, in the order of the tables
C4_OneSectionPerSchemaTable ==
    (pc = "returned" /\ ~parsed.panic)
    => LET tables == QualifyingTables(source)
       IN  /\ Len(parsed.sections) = Len(tables)
           /\ \A k \in 1..Len(tables) :
                 parsed.sections[k].Variables = ExpectedVariables(source[tables[k]])

\* a padded and an exact schema table, and a table that does not qualify
C4_Witness ==
    /\ pc = "returned"
    /\ ~parsed.panic
    /\ Len(parsed.sections) = 2
    /\ parsed.sections[1].Variables # parsed.sections[2].Variables
    /\ \E t \in 1..Len(source) : source[t] \in {CaseTable, ReorderedTable, ShortTable}

\* C5: in a well-formed document the call returns, and the Path of each
\* qualifying table is not empty, ends with the title of the nearest heading
\* before the table, starts with the title of the nearest heading of level
\* <= rootLevel before it, and lists after it the titles of the headings
\* between that one and the table, all of level > rootLevel, in document order
C5_PathOfWellFormedTable ==
    (pc = "returned" /\ WellFormed(source, headingRootLevel))
    => /\ ~parsed.panic
       /\ Len(parsed.sections) = Len(QualifyingTables(source))
       /\ \A k \in 1..Len(parsed.sections) :
             LET t == QualifyingTables(source)[k]
                 path == parsed.heap[parsed.sections[k].Path]
                 root == Last(PrecedingRoots(source, t, headingRootLevel))
                 between == SelectSeq(Indices(source),
                                LAMBDA e : e \in PrecedingHeadings(source, t) /\ e > root)
             IN  /\ Len(path) >= 1
                 /\ path[Len(path)] = source[Last(PrecedingHeadings(source, t))].text
                 /\ path[1] = source[root].text
                 /\ Len(path) = 1 + Len(between)
                 /\ \A j \in 1..Len(between) :
                       /\ path[j + 1] = source[between[j]].text
                       /\ LevelAt(source, between[j]) > headingRootLevel

\* a Path of three titles
C5_Witness ==
    /\ pc = "returned"
    /\ WellFormed(source, headingRootLevel)
    /\ \E k \in 1..Len(parsed.sections) : Len(parsed.heap[parsed.sections[k].Path]) = 3

\* C6: when a qualifying table has no heading of level <= rootLevel among its
\* preceding siblings, the call panics and returns no Section at all
C6_OrphanTableAbortsThePass ==
    (pc = "returned" /\ ~WellFormed(source, headingRootLevel))
    => parsed.panic /\ parsed.sections = <<>> /\ parsed.heap = <<>>

\* the pass aborts although an earlier qualifying table has its headings
C6_Witness ==
    /\ pc = "returned"
    /\ parsed.panic
    /\ \E t \in 1..Len(source) :
          Qualifying(source[t]) /\ PrecedingRoots(source, t, headingRootLevel) # {}
    /\ \E t \in 1..Len(source) :
          /\ Qualifying(source[t])
          /\ PrecedingHeadings(source, t) # {}
          /\ PrecedingRoots(source, t, headingRootLevel) = {}

----------------------------------------------------------------------------
(* Claim about the Sections table, under SpecSections                      *)

\* C3: in the final Sections table every Section that owns Subsections is a
\* root (Path of length 1), and each of its Subsections has a longer Path,
\* owns no Subsections and carries its root's first Path element, also
\* after the root was renamed
C3_SubsectionsFollowTheirRoot ==
    pc \in {"keywords", "done"}
    => \A i \in 1..Len(Sections) :
          \A j \in 1..Len(Sections[i].Subsections) :
             LET sub == Sections[i].Subsections[j]
             IN  /\ Len(pathHeap[Sections[i].Path]) = 1
                 /\ Len(pathHeap[sub.Path]) > 1
                 /\ sub.Subsections = <<>>
                 /\ pathHeap[sub.Path][1] = pathHeap[Sections[i].Path][1]

\* a root renamed "Master" that owns a Subsection
C3_Witness ==
    /\ pc = "done"
    /\ \E i \in 1..Len(Sections) :
          /\ pathHeap[Sections[i].Path] = <<StrMaster>>
          /\ Sections[i].Subsections # <<>>

----------------------------------------------------------------------------
(* Claim about the whole of init(), under Spec                             *)

\* C8: the keyword loop processes every keyword: it does not end in a panic,
\* and when init() is done a keyword that had a Description keeps it, one
\* whose document does not load or holds no matching heading has none, and
\* every other one has the converted capture
C8_KeywordErrorsArePerRecord ==
    /\ pc = "panicked" => heading = 0
    /\ pc = "done" =>
          \A k \in 1..Len(Keywords) :
             LET kw == Keywords[k]
                 loads == kw.documentationFile \in DOMAIN documentationSources
                 doc == documentationSources[kw.documentationFile]
                 h == FindHeading(doc, kw.documentationHeadingSlug)
             IN  \/ kw.Description = Preset
                 \/ /\ ~loads
                    /\ kw.Description = <<>>
                 \/ /\ loads
                    /\ h = 0
                    /\ kw.Description = <<>>
                 \/ /\ loads
                    /\ h # 0
                    /\ kw.Description =
                         ConvertString(
                            htmlBetweenHeadingAndNextHeading(doc, h, h, DEBUG).out)

\* what does hold of C8: the same with DEBUG unset; a Description that is not
\* empty is never written; the keyword loop leaves Sections as they are
KeywordErrorsArePerRecordWithoutDebug == ~DEBUG => C8_KeywordErrorsArePerRecord
DescriptionWrittenAtMostOnce ==
    [][\A k \in 1..Len(Keywords) :
          Keywords[k].Description # <<>> => Keywords'[k] = Keywords[k]]_vars
KeywordLoopKeepsSections ==
    [][pc = "keywords" => Sections' = Sections /\ pathHeap' = pathHeap]_vars


====
